---- MODULE Spec2Model ----
(***************************************************************************)
(* Model of the OAuth2 token lifecycle of spotify_mcp/auth.py:             *)
(* the credential file, the one-shot callback listener with its accept     *)
(* thread, the two token exchanges and get_access_token.                   *)
(***************************************************************************)
EXTENDS Integers, Sequences, FiniteSets, TLC

\* ---------------------------------------------------------------- bounds
\* number of authorize() invocations that bind a listener in one run
MaxAuth == 2

\* ------------------------------------------------------------ value sets
Unset == "<unset>"
None == "<None>"
\* the value of `tokens` when _load_tokens returned None
NoTokens == [k \in {"<None>"} |-> 0]
\* TOKEN_PATH when the file does not exist
NoFile == [exists |-> FALSE, text |-> <<>>]

EnvValues == {Unset, "", "set"}
AccessTokens == {"a1", "a2"}
RefreshTokens == {"r1", "r2"}
ExpiresIn == {3600}
ProbeStatuses == {200, 401, 403, 500}
TokenStatuses == {200, 400, 500}
NetworkError == 0

EmptyDict == [k \in {} |-> 0]

\* the dicts parse_qs can hand to do_GET: a code, two values of code, an
\* error, neither
Queries ==
    { ("code" :> <<"c1">>),
      ("code" :> <<"c2", "c1">>),
      ("error" :> <<"access_denied">>),
      EmptyDict }

\* bodies of a 2xx answer of the token endpoint
WithRefresh ==
    {("access_token" :> a) @@ ("expires_in" :> e) @@ ("refresh_token" :> r) :
        a \in AccessTokens, e \in ExpiresIn, r \in RefreshTokens}
WithoutRefresh ==
    {("access_token" :> a) @@ ("expires_in" :> e) :
        a \in AccessTokens, e \in ExpiresIn}
ErrorBody == ("error" :> "invalid_grant")

\* a record written long ago, whose lifetime is over by any clock
ExpiredRecord ==
    ("access_token" :> "a1") @@ ("expires_in" :> 0) @@ ("refresh_token" :> "r1")

\* the records TOKEN_PATH can hold when the program starts
StoredRecords == WithRefresh \cup {ExpiredRecord}

\* the authorization_code grant always carries a refresh_token, the
\* refresh_token grant "may or may not" (auth.py:114)
CodeGrantBodies == WithRefresh
RefreshGrantBodies == WithRefresh \cup WithoutRefresh

\* ------------------------------------------------------- pure functions
KeyOrder == <<"access_token", "expires_in", "refresh_token", "error">>

\* the braces of a JSON object, as elements of a text
OpenBrace == <<"{", "">>
CloseBrace == <<"}", "">>

\* json.dumps: the text of a dict, as the sequence of its key/value pairs
\* between the braces; the empty file is the empty text
Dumps(d) ==
    LET keys == SelectSeq(KeyOrder, LAMBDA k : k \in DOMAIN d)
    IN  <<OpenBrace>> \o [i \in 1..Len(keys) |-> <<keys[i], d[keys[i]]>>]
                      \o <<CloseBrace>>

\* json.loads accepts the text: a complete object
WellFormed(text) ==
    /\ Len(text) >= 2
    /\ text[1][1] = "{"
    /\ text[Len(text)][1] = "}"
    /\ \A i \in 2..(Len(text) - 1) : text[i][1] \notin {"{", "}"}

\* what json.loads gives for a text it rejects (it raises JSONDecodeError)
DecodeError == [k \in {"<JSONDecodeError>"} |-> 0]

\* json.loads: the dict of a text
Loads(text) ==
    IF WellFormed(text)
    THEN LET pairs == {text[i] : i \in 2..(Len(text) - 1)}
         IN  [k \in {p[1] : p \in pairs} |->
                (CHOOSE p \in pairs : p[1] = k)[2]]
    ELSE DecodeError

\* variant: only the access token is written
save_access_token_only(tokens) ==
    [exists |-> TRUE,
     text |-> Dumps([k \in DOMAIN tokens \cap {"access_token"} |-> tokens[k]])]

\* _save_tokens: TOKEN_PATH after TOKEN_PATH.write_text(json.dumps(tokens))
save_tokens(tokens) == [exists |-> TRUE, text |-> Dumps(tokens)]

\* _load_tokens: the dict of the file, None when the file does not exist
load_tokens(f) == IF f.exists THEN Loads(f.text) ELSE NoTokens

\* `not tokens` of get_access_token
NotTokens(t) == t = NoTokens \/ t = EmptyDict

\* variant: only the client id is looked at
CredentialsMissingIdOnly(e) == e.id \in {Unset, ""}

\* _get_credentials raises when `not client_id or not client_secret`
CredentialsMissing(e) ==
    e.id \in {Unset, ""} \/ e.secret \in {Unset, ""}

\* variant: raise_for_status left out
RaisesNever(status) == FALSE

\* variant: only the 5xx statuses raise
RaisesOnlyServerErrors(status) == status >= 500

\* Response.raise_for_status raises for every status outside 2xx
RaisesForStatus(status) == status \notin 200..299

\* variant: the answer is kept as the provider sent it
InjectNothing(new_tokens, refresh_token) == new_tokens

\* variant: the test of the re-injection is inverted
InjectWhenPresent(new_tokens, refresh_token) ==
    IF "refresh_token" \in DOMAIN new_tokens
    THEN [new_tokens EXCEPT !["refresh_token"] = refresh_token]
    ELSE new_tokens

\* refresh_access_token: "if 'refresh_token' not in new_tokens" re-injection
InjectRefreshToken(new_tokens, refresh_token) ==
    IF "refresh_token" \notin DOMAIN new_tokens
    THEN new_tokens @@ ("refresh_token" :> refresh_token)
    ELSE new_tokens

\* variant: a 401 of the probe is not looked at
NeedsRefreshNever(status) == FALSE

\* variant: every status but 200 starts a refresh
NeedsRefreshUnless200(status) == status # 200

\* get_access_token: `test.status_code == 401`
NeedsRefresh(status) == status = 401

\* variant: one message per cause
NoCodeErrorPerCause(cause) ==
    IF cause = "timeout" THEN "Authorization timed out."
    ELSE "Authorization failed."

\* the message of the RuntimeError of authorize() when no code was captured
NoCodeError(cause) == "Authorization timed out or failed."

MissingCredentialsError ==
    "SPOTIFY_CLIENT_ID and SPOTIFY_CLIENT_SECRET environment variables must be set."

\* ----------------------------------------------------------------- state
VARIABLES
    env,            \* os.environ: SPOTIFY_CLIENT_ID, SPOTIFY_CLIENT_SECRET
    file,           \* TOKEN_PATH
    auth_code,      \* _CallbackHandler.auth_code (class attribute)
    server_open,    \* per authorize() invocation: its listening socket is open
    thread,         \* per authorize() invocation: its accept thread
    request,        \* per accept thread: the query of the request it accepted
    response,       \* per accept thread: the HTTP status do_GET sent
    nAuth,          \* number of listeners bound so far; the current one
    op,             \* the function the caller invoked
    pc,             \* position of the main thread
    tokens,         \* local `tokens` / `new_tokens`
    refresh_token,  \* parameter of refresh_access_token
    result,         \* what the last call returned or raised
    \* observations of the current call
    fileAtCall,     \* TOKEN_PATH when the call started
    nBind,          \* listeners bound
    nBrowser,       \* webbrowser.open calls
    posts,          \* POSTs sent to the token endpoint
    refreshCalls,   \* arguments of the refresh_access_token invocations
    probes,         \* GETs sent to the API
    joinTimedOut,   \* thread.join returned with the thread alive
    lastBody,       \* body of the last 2xx answer of the token endpoint
    \* the store functions called on their own, by two callers at once
    wpc,            \* position of the caller of _save_tokens
    wtokens,        \* its argument `tokens`
    prev,           \* TOKEN_PATH when that _save_tokens was called
    rpc,            \* position of the caller of _load_tokens
    loaded,         \* what its last _load_tokens returned or raised
    overlap         \* that _load_tokens ran while a _save_tokens was running

progVars == <<env, file, auth_code, server_open, thread, request, response,
              nAuth, op, pc, tokens, refresh_token, result>>
callObs == <<fileAtCall, nBind, nBrowser, posts, refreshCalls, probes,
             joinTimedOut, lastBody>>
\* everything but TOKEN_PATH and the callers of the store functions
programVars == <<env, auth_code, server_open, thread, request, response, nAuth,
                 op, pc, tokens, refresh_token, result, callObs>>
storeVars == <<wpc, wtokens, prev, rpc, loaded, overlap>>
vars == <<progVars, callObs, storeVars>>

Invocations == 1..MaxAuth

NoResult == [kind |-> "none", token |-> "", tokens |-> EmptyDict, error |-> ""]
OkToken(t) == [kind |-> "ok", token |-> t, tokens |-> EmptyDict, error |-> ""]
OkTokens(d) == [kind |-> "ok", token |-> "", tokens |-> d, error |-> ""]
Err(e) == [kind |-> "err", token |-> "", tokens |-> EmptyDict, error |-> e]

\* variant: get_access_token hands back the wrong field
ReturnsRefreshToken(o, d) ==
    IF o = "get_access_token"
    THEN IF "refresh_token" \in DOMAIN d THEN OkToken(d["refresh_token"])
         ELSE Err("KeyError")
    ELSE OkTokens(d)

\* what the invoked function hands back when the exchange produced dict d:
\* get_access_token returns d["access_token"], the two exchanges return d
ReturnValue(o, d) ==
    IF o = "get_access_token"
    THEN IF "access_token" \in DOMAIN d THEN OkToken(d["access_token"])
         ELSE Err("KeyError")
    ELSE OkTokens(d)

\* nobody has called _load_tokens yet
NotLoaded == [k \in {"<not loaded>"} |-> 0]

\* read_text of a path that does not exist
FileNotFound == [k \in {"<FileNotFoundError>"} |-> 0]

\* no caller of the store functions is inside a call
StoreCallersIdle ==
    /\ wpc = "idle"
    /\ wtokens = NoTokens
    /\ prev = NoFile
    /\ rpc = "idle"
    /\ loaded = NotLoaded
    /\ overlap = FALSE

Init ==
    /\ env \in [id : EnvValues, secret : EnvValues]
    /\ file \in {NoFile} \cup {save_tokens(t) : t \in StoredRecords}
    /\ auth_code = None
    /\ server_open = [i \in Invocations |-> FALSE]
    /\ thread = [i \in Invocations |-> "none"]
    /\ request = [i \in Invocations |-> EmptyDict]
    /\ response = [i \in Invocations |-> 0]
    /\ nAuth = 0
    /\ op = "none"
    /\ pc = "idle"
    /\ tokens = NoTokens
    /\ refresh_token = None
    /\ result = NoResult
    /\ fileAtCall = file
    /\ nBind = 0
    /\ nBrowser = 0
    /\ posts = <<>>
    /\ refreshCalls = <<>>
    /\ probes = <<>>
    /\ joinTimedOut = FALSE
    /\ lastBody = EmptyDict
    /\ StoreCallersIdle

\* the observations of the previous call are dropped
ResetObservations(o) ==
    /\ op' = o
    /\ fileAtCall' = file
    /\ nBind' = 0
    /\ nBrowser' = 0
    /\ posts' = <<>>
    /\ probes' = <<>>
    /\ joinTimedOut' = FALSE
    /\ lastBody' = EmptyDict

\* a call starts
StartCall(o) ==
    /\ ResetObservations(o)
    /\ result' = NoResult

Finish(res) ==
    /\ pc' = "idle"
    /\ result' = res

\* ------------------------------------------------------ get_access_token
\* variant: the token set of the previous call is kept and used again
LoadedOncePerProcess ==
    IF tokens # NoTokens THEN tokens ELSE load_tokens(file)

\* line 123: tokens = _load_tokens(), read from TOKEN_PATH at every call
LoadedAtCall == load_tokens(file)

CallGetAccessToken ==
    /\ pc = "idle"
    /\ file.exists \/ nAuth < MaxAuth
    /\ IF LoadedAtCall = DecodeError
       THEN /\ ResetObservations("get_access_token")
            /\ Finish(Err("JSONDecodeError"))
            /\ UNCHANGED tokens
       ELSE /\ StartCall("get_access_token")
            /\ tokens' = LoadedAtCall
            /\ pc' = IF NotTokens(tokens') THEN "auth_creds" ELSE "probe"
    /\ refreshCalls' = <<>>
    /\ UNCHANGED <<env, file, auth_code, server_open, thread, request,
                   response, nAuth, refresh_token>>

\* dict.get: None when the key is missing
Get(d, k) == IF k \in DOMAIN d THEN d[k] ELSE None

\* lines 130-139: the GET of /v1/me with the loaded access token, the branch
\* on its status, and the return of the loaded access token
Probe ==
    /\ pc = "probe"
    /\ IF "access_token" \notin DOMAIN tokens
       THEN /\ Finish(Err("KeyError"))
            /\ UNCHANGED <<probes, refresh_token, refreshCalls>>
       ELSE \E status \in ProbeStatuses \cup {NetworkError} :
        /\ probes' = Append(probes, [token |-> tokens["access_token"],
                                     status |-> status])
        /\ IF status = NetworkError
           THEN /\ Finish(Err("NetworkError"))
                /\ UNCHANGED <<refresh_token, refreshCalls>>
           ELSE IF NeedsRefresh(status)
           THEN IF "refresh_token" \in DOMAIN tokens
                THEN /\ refresh_token' = tokens["refresh_token"]
                     /\ refreshCalls' = Append(refreshCalls, refresh_token')
                     /\ pc' = "refresh_creds"
                     /\ UNCHANGED result
                ELSE /\ Finish(Err("KeyError"))
                     /\ UNCHANGED <<refresh_token, refreshCalls>>
           ELSE /\ Finish(ReturnValue(op, tokens))
                /\ UNCHANGED <<refresh_token, refreshCalls>>
    /\ UNCHANGED <<env, file, auth_code, server_open, thread, request,
                   response, nAuth, op, tokens, fileAtCall, nBind, nBrowser,
                   posts, joinTimedOut, lastBody>>

\* -------------------------------------------------- refresh_access_token
CallRefresh ==
    /\ pc = "idle"
    /\ \E r \in RefreshTokens :
        /\ refresh_token' = r
        /\ refreshCalls' = <<r>>
    /\ StartCall("refresh_access_token")
    /\ pc' = "refresh_creds"
    /\ UNCHANGED <<env, file, auth_code, server_open, thread, request,
                   response, nAuth, tokens>>

RefreshCreds ==
    /\ pc = "refresh_creds"
    /\ IF CredentialsMissing(env)
       THEN Finish(Err(MissingCredentialsError))
       ELSE pc' = "refresh_post" /\ UNCHANGED result
    /\ UNCHANGED <<env, file, auth_code, server_open, thread, request,
                   response, nAuth, op, tokens, refresh_token, callObs>>

\* the POST of the refresh_token grant, raise_for_status, the re-injection,
\* _save_tokens and the return
RefreshPost ==
    /\ pc = "refresh_post"
    /\ \E status \in TokenStatuses \cup {NetworkError} :
       \E b \in RefreshGrantBodies :
        LET body == IF status = 200 THEN b ELSE ErrorBody
            new_tokens == InjectRefreshToken(body, refresh_token)
        IN
         /\ posts' = Append(posts, [grant |-> "refresh_token",
                                    value |-> refresh_token,
                                    status |-> status])
         /\ IF status = NetworkError
                THEN /\ Finish(Err("NetworkError"))
                     /\ UNCHANGED <<file, tokens, lastBody>>
                ELSE IF RaisesForStatus(status)
                THEN /\ Finish(Err("HTTPStatusError"))
                     /\ UNCHANGED <<file, tokens, lastBody>>
                ELSE /\ file' = save_tokens(new_tokens)
                     /\ tokens' = new_tokens
                     /\ lastBody' = body
                     /\ Finish(ReturnValue(op, new_tokens))
    /\ UNCHANGED <<env, auth_code, server_open, thread, request, response,
                   nAuth, op, refresh_token, fileAtCall, nBind, nBrowser,
                   refreshCalls, probes, joinTimedOut>>

\* ------------------------------------------------------------- authorize
CallAuthorize ==
    /\ pc = "idle"
    /\ nAuth < MaxAuth
    /\ StartCall("authorize")
    /\ pc' = "auth_creds"
    /\ refreshCalls' = <<>>
    /\ UNCHANGED <<env, file, auth_code, server_open, thread, request,
                   response, nAuth, tokens, refresh_token>>

\* line 62: _get_credentials()
AuthCreds ==
    /\ pc = "auth_creds"
    /\ IF CredentialsMissing(env)
       THEN Finish(Err(MissingCredentialsError))
       ELSE pc' = "auth_bind" /\ UNCHANGED result
    /\ UNCHANGED <<env, file, auth_code, server_open, thread, request,
                   response, nAuth, op, tokens, refresh_token, callObs>>

\* lines 72-73: HTTPServer(("127.0.0.1", 8888), ...) binds and listens, or
\* raises OSError when the port is taken; then auth_code = None
AuthBind ==
    /\ pc = "auth_bind"
    /\ IF \E j \in Invocations : server_open[j]
       THEN /\ Finish(Err("OSError"))
            /\ UNCHANGED <<auth_code, server_open, nAuth, nBind>>
       ELSE /\ nAuth' = nAuth + 1
            /\ server_open' = [server_open EXCEPT ![nAuth + 1] = TRUE]
            /\ auth_code' = None
            /\ nBind' = nBind + 1
            /\ pc' = "auth_start"
            /\ UNCHANGED result
    /\ UNCHANGED <<env, file, thread, request, response, op, tokens,
                   refresh_token, fileAtCall, nBrowser, posts, refreshCalls,
                   probes, joinTimedOut, lastBody>>

\* lines 75-76: the accept thread starts server.handle_request
AuthStart ==
    /\ pc = "auth_start"
    /\ thread' = [thread EXCEPT ![nAuth] = "waiting"]
    /\ pc' = "auth_browser"
    /\ UNCHANGED <<env, file, auth_code, server_open, request, response,
                   nAuth, op, tokens, refresh_token, result, callObs>>

\* line 78: webbrowser.open returns True or False, or raises
AuthBrowser ==
    /\ pc = "auth_browser"
    /\ nBrowser' = nBrowser + 1
    /\ \E outcome \in {"launched", "not_launched", "raised"} :
        IF outcome = "raised"
        THEN Finish(Err("BrowserError"))
        ELSE pc' = "auth_join" /\ UNCHANGED result
    /\ UNCHANGED <<env, file, auth_code, server_open, thread, request,
                   response, nAuth, op, tokens, refresh_token, fileAtCall,
                   nBind, posts, refreshCalls, probes, joinTimedOut, lastBody>>

\* line 79: thread.join(timeout=120) returns because the thread ended
AuthJoinReturns ==
    /\ pc = "auth_join"
    /\ thread[nAuth] = "done"
    /\ joinTimedOut' = FALSE
    /\ pc' = "auth_close"
    /\ UNCHANGED <<env, file, auth_code, server_open, thread, request,
                   response, nAuth, op, tokens, refresh_token, result,
                   fileAtCall, nBind, nBrowser, posts, refreshCalls, probes,
                   lastBody>>

\* variant: thread.join() without a timeout returns only when the thread ended
AuthJoinWithoutTimeout == AuthJoinReturns

\* line 79: thread.join(timeout=120) returns because the 120 s elapsed,
\* the thread is still alive
AuthJoinTimesOut ==
    /\ pc = "auth_join"
    /\ thread[nAuth] # "done"
    /\ joinTimedOut' = TRUE
    /\ pc' = "auth_close"
    /\ UNCHANGED <<env, file, auth_code, server_open, thread, request,
                   response, nAuth, op, tokens, refresh_token, result,
                   fileAtCall, nBind, nBrowser, posts, refreshCalls, probes,
                   lastBody>>

\* line 80: server.server_close()
AuthClose ==
    /\ pc = "auth_close"
    /\ server_open' = [server_open EXCEPT ![nAuth] = FALSE]
    /\ pc' = "auth_check"
    /\ UNCHANGED <<env, file, auth_code, thread, request, response, nAuth,
                   op, tokens, refresh_token, result, callObs>>

\* why the current invocation has no code: the wait timed out, the redirect
\* carried error=..., or it carried neither code nor error
Cause ==
    IF joinTimedOut THEN "timeout"
    ELSE IF "error" \in DOMAIN request[nAuth] THEN "denied"
    ELSE "nocode"

\* variant: the exchange is attempted whatever auth_code holds
AuthCheckSkipped ==
    /\ pc = "auth_check"
    /\ pc' = "auth_post"
    /\ UNCHANGED <<env, file, auth_code, server_open, thread, request,
                   response, nAuth, op, tokens, refresh_token, result,
                   callObs>>

\* lines 82-83: `if not _CallbackHandler.auth_code: raise RuntimeError(...)`
AuthCheck ==
    /\ pc = "auth_check"
    /\ IF auth_code = None
       THEN Finish(Err(NoCodeError(Cause)))
       ELSE pc' = "auth_post" /\ UNCHANGED result
    /\ UNCHANGED <<env, file, auth_code, server_open, thread, request,
                   response, nAuth, op, tokens, refresh_token, callObs>>

\* lines 85-97: the POST of the authorization_code grant with the code read
\* from the class attribute, raise_for_status, _save_tokens and the return
AuthPost ==
    /\ pc = "auth_post"
    /\ \E status \in TokenStatuses \cup {NetworkError} :
       \E b \in CodeGrantBodies :
        LET body == IF status = 200 THEN b ELSE ErrorBody
        IN
         /\ posts' = Append(posts, [grant |-> "authorization_code",
                                    value |-> auth_code,
                                    status |-> status])
         /\ IF status = NetworkError
                THEN /\ Finish(Err("NetworkError"))
                     /\ UNCHANGED <<file, tokens, lastBody>>
                ELSE IF RaisesForStatus(status)
                THEN /\ Finish(Err("HTTPStatusError"))
                     /\ UNCHANGED <<file, tokens, lastBody>>
                ELSE /\ file' = save_tokens(body)
                     /\ tokens' = body
                     /\ lastBody' = body
                     /\ Finish(ReturnValue(op, body))
    /\ UNCHANGED <<env, auth_code, server_open, thread, request, response,
                   nAuth, op, refresh_token, fileAtCall, nBind, nBrowser,
                   refreshCalls, probes, joinTimedOut>>

\* ----------------------------------------------------- the accept thread
\* handle_request: a connection arrives on the listening socket and is
\* accepted; its request line carries query q
ThreadAccept(i) ==
    /\ thread[i] = "waiting"
    /\ server_open[i]
    /\ \E q \in Queries : request' = [request EXCEPT ![i] = q]
    /\ thread' = [thread EXCEPT ![i] = "handling"]
    /\ UNCHANGED <<env, file, auth_code, server_open, response, nAuth, op,
                   pc, tokens, refresh_token, result, callObs>>

\* _CallbackHandler.do_GET, after which handle_request returns
do_GET(i) ==
    /\ thread[i] = "handling"
    /\ IF "code" \in DOMAIN request[i]
       THEN /\ auth_code' = request[i]["code"][1]
            /\ response' = [response EXCEPT ![i] = 200]
       ELSE /\ response' = [response EXCEPT ![i] = 400]
            /\ UNCHANGED auth_code
    /\ thread' = [thread EXCEPT ![i] = "done"]
    /\ UNCHANGED <<env, file, server_open, request, nAuth, op, pc, tokens,
                   refresh_token, result, callObs>>

\* handle_request of a thread whose socket was closed under it: the wait
\* may never return, or it returns and accept() fails with OSError, which
\* handle_request swallows
ThreadAbort(i) ==
    /\ thread[i] = "waiting"
    /\ ~server_open[i]
    /\ thread' = [thread EXCEPT ![i] = "done"]
    /\ UNCHANGED <<env, file, auth_code, server_open, request, response,
                   nAuth, op, pc, tokens, refresh_token, result, callObs>>

\* --------------------------------------------------------- specification
Next ==
    \/ CallGetAccessToken /\ UNCHANGED storeVars
    \/ Probe /\ UNCHANGED storeVars
    \/ CallRefresh /\ UNCHANGED storeVars
    \/ RefreshCreds /\ UNCHANGED storeVars
    \/ RefreshPost /\ UNCHANGED storeVars
    \/ CallAuthorize /\ UNCHANGED storeVars
    \/ AuthCreds /\ UNCHANGED storeVars
    \/ AuthBind /\ UNCHANGED storeVars
    \/ AuthStart /\ UNCHANGED storeVars
    \/ AuthBrowser /\ UNCHANGED storeVars
    \/ AuthJoinReturns /\ UNCHANGED storeVars
    \/ AuthJoinTimesOut /\ UNCHANGED storeVars
    \/ AuthClose /\ UNCHANGED storeVars
    \/ AuthCheck /\ UNCHANGED storeVars
    \/ AuthPost /\ UNCHANGED storeVars
    \/ \E i \in Invocations : ThreadAccept(i) /\ UNCHANGED storeVars
    \/ \E i \in Invocations : do_GET(i) /\ UNCHANGED storeVars
    \/ \E i \in Invocations : ThreadAbort(i) /\ UNCHANGED storeVars

Spec == Init /\ [][Next]_vars

\* fairness: the steps of the main thread inside authorize() are not delayed
\* forever (join has a timeout, the POST has the transport's timeout); no
\* fairness for the accept thread, whose request may never come
MainThread ==
    \/ AuthCreds /\ UNCHANGED storeVars
    \/ AuthBind /\ UNCHANGED storeVars
    \/ AuthStart /\ UNCHANGED storeVars
    \/ AuthBrowser /\ UNCHANGED storeVars
    \/ AuthJoinReturns /\ UNCHANGED storeVars
    \/ AuthJoinTimesOut /\ UNCHANGED storeVars
    \/ AuthClose /\ UNCHANGED storeVars
    \/ AuthCheck /\ UNCHANGED storeVars
    \/ AuthPost /\ UNCHANGED storeVars

LiveSpec == Spec /\ WF_vars(MainThread)

\* ------------------------------------------- the store functions alone
\* _save_tokens and _load_tokens called directly, as test_auth.py calls
\* them, by one writing and one reading caller that may run at once

\* TOKEN_PATH after open(mode="w") and before the write: it exists, empty
EmptyFile == [exists |-> TRUE, text |-> <<>>]

\* the token sets handed to _save_tokens
TokenSets == WithRefresh \cup WithoutRefresh \cup {ExpiredRecord}

StoreInit ==
    /\ env = [id |-> Unset, secret |-> Unset]
    /\ file \in {NoFile, EmptyFile} \cup {save_tokens(t) : t \in StoredRecords}
    /\ auth_code = None
    /\ server_open = [i \in Invocations |-> FALSE]
    /\ thread = [i \in Invocations |-> "none"]
    /\ request = [i \in Invocations |-> EmptyDict]
    /\ response = [i \in Invocations |-> 0]
    /\ nAuth = 0
    /\ op = "none"
    /\ pc = "idle"
    /\ tokens = NoTokens
    /\ refresh_token = None
    /\ result = NoResult
    /\ fileAtCall = file
    /\ nBind = 0
    /\ nBrowser = 0
    /\ posts = <<>>
    /\ refreshCalls = <<>>
    /\ probes = <<>>
    /\ joinTimedOut = FALSE
    /\ lastBody = EmptyDict
    /\ StoreCallersIdle

\* _save_tokens(tokens) is called
CallSaveTokens(t) ==
    /\ wpc = "idle"
    /\ wpc' = "open"
    /\ wtokens' = t
    /\ prev' = file
    /\ overlap' = (overlap \/ rpc # "idle")
    /\ UNCHANGED <<file, rpc, loaded, programVars>>

\* variant: the file is opened for appending, created but not truncated
WriteOpenAppending ==
    /\ wpc = "open"
    /\ wpc' = "write"
    /\ file' = [exists |-> TRUE, text |-> file.text]
    /\ overlap' = (overlap \/ rpc # "idle")
    /\ UNCHANGED <<wtokens, prev, rpc, loaded, programVars>>

\* Path.write_text opens the file for writing: it is created or truncated
WriteOpen ==
    /\ wpc = "open"
    /\ wpc' = "write"
    /\ file' = EmptyFile
    /\ overlap' = (overlap \/ rpc # "idle")
    /\ UNCHANGED <<wtokens, prev, rpc, loaded, programVars>>

\* Path.write_text writes json.dumps(tokens) to the opened file, closes it
\* and returns
WriteFlush ==
    /\ wpc = "write"
    /\ wpc' = "idle"
    /\ file' = [exists |-> TRUE, text |-> file.text \o Dumps(wtokens)]
    /\ overlap' = (overlap \/ rpc # "idle")
    /\ UNCHANGED <<wtokens, prev, rpc, loaded, programVars>>

\* _load_tokens() is called
CallLoadTokens ==
    /\ rpc = "idle"
    /\ rpc' = "exists"
    /\ overlap' = (wpc # "idle")
    /\ UNCHANGED <<file, wpc, wtokens, prev, loaded, programVars>>

\* variant: the file is read without asking whether it exists
LoadExistsSkipped ==
    /\ rpc = "exists"
    /\ rpc' = "read"
    /\ UNCHANGED <<file, wpc, wtokens, prev, loaded, overlap, programVars>>

\* if TOKEN_PATH.exists(): ... else return None
LoadExists ==
    /\ rpc = "exists"
    /\ IF file.exists
       THEN /\ rpc' = "read"
            /\ UNCHANGED loaded
       ELSE /\ rpc' = "idle"
            /\ loaded' = NoTokens
    /\ UNCHANGED <<file, wpc, wtokens, prev, overlap, programVars>>

\* return json.loads(TOKEN_PATH.read_text())
LoadRead ==
    /\ rpc = "read"
    /\ rpc' = "idle"
    /\ loaded' = IF file.exists THEN Loads(file.text) ELSE FileNotFound
    /\ UNCHANGED <<file, wpc, wtokens, prev, overlap, programVars>>

StoreNext ==
    \/ \E t \in TokenSets : CallSaveTokens(t)
    \/ WriteOpen
    \/ WriteFlush
    \/ CallLoadTokens
    \/ LoadExists
    \/ LoadRead

StoreSpec == StoreInit /\ [][StoreNext]_vars

\* ------------------------------------- the store shared with a process
\* another process of the same user (an earlier or parallel run of the
\* server) refreshes and saves its own token set between two calls

\* an access token the token endpoint issued to the other process
ReplacedRecord ==
    ("access_token" :> "a3") @@ ("expires_in" :> 3600)
        @@ ("refresh_token" :> "r2")

\* the other process's _save_tokens, after a get_access_token of this
\* process has returned a token
ExternalReplace ==
    /\ pc = "idle"
    /\ op = "get_access_token"
    /\ result.kind = "ok"
    /\ file # save_tokens(ReplacedRecord)
    /\ file' = save_tokens(ReplacedRecord)
    /\ UNCHANGED <<programVars, storeVars>>

SharedNext ==
    \/ Next
    \/ ExternalReplace

SharedSpec == Init /\ [][SharedNext]_vars

\* ------------------------------------------------------------ properties
StoredAtCall == load_tokens(fileAtCall)
Stored == load_tokens(file)
Returned(o) == pc = "idle" /\ op = o
Probed401 == Len(probes) = 1 /\ probes[1].status = 401
HasRefreshToken(f) == f.exists /\ "refresh_token" \in DOMAIN Loads(f.text)
CredsAbsent == env.id \in {Unset, ""} \/ env.secret \in {Unset, ""}

\* C1: with a stored token set and a 401 on the probe made with its access
\* token, one get_access_token call invokes the refresh exchange exactly once,
\* with the stored refresh_token; on success the store holds the new access
\* token and the call returns it.
C1_RefreshOnceOn401 ==
    (Returned("get_access_token") /\ fileAtCall.exists
        /\ probes # <<>> /\ probes[1].status = 401)
    => /\ Len(probes) = 1
       /\ probes[1].token = Get(StoredAtCall, "access_token")
       /\ refreshCalls = <<Get(StoredAtCall, "refresh_token")>>
       /\ Len(posts) <= 1
       /\ \A i \in DOMAIN posts :
            /\ posts[i].grant = "refresh_token"
            /\ posts[i].value = Get(StoredAtCall, "refresh_token")
       /\ result.kind = "ok" =>
            /\ Len(posts) = 1
            /\ Get(Stored, "access_token") = Get(lastBody, "access_token")
            /\ result.token = Get(lastBody, "access_token")

C1_Witness ==
    /\ Returned("get_access_token")
    /\ fileAtCall.exists
    /\ Probed401
    /\ result.kind = "ok"
    /\ result.token # Get(StoredAtCall, "access_token")
    /\ Get(Stored, "access_token") = result.token

\* C2: when refresh_access_token(R) succeeds on an answer without a
\* refresh_token field, the returned token set and the stored token set both
\* have refresh_token = R.
C2_RefreshTokenRetained ==
    (pc = "idle" /\ refreshCalls # <<>> /\ posts # <<>>
        /\ posts[Len(posts)].status = 200
        /\ "refresh_token" \notin DOMAIN lastBody)
    => /\ file.exists
       /\ Get(Stored, "refresh_token") = refreshCalls[1]
       /\ op = "refresh_access_token" =>
            /\ result.kind = "ok"
            /\ Get(result.tokens, "refresh_token") = refreshCalls[1]
            /\ Get(result.tokens, "access_token") = Get(lastBody, "access_token")

C2_Witness ==
    /\ Returned("refresh_access_token")
    /\ result.kind = "ok"
    /\ "refresh_token" \notin DOMAIN lastBody
    /\ fileAtCall.exists
    /\ refreshCalls[1] # Get(StoredAtCall, "refresh_token")
    /\ Get(Stored, "refresh_token") = refreshCalls[1]

\* C3: the refresh_token is never dropped: once the store holds a token set
\* with a refresh_token, every step leaves it holding one.
C3_RefreshTokenNeverDropped ==
    [][HasRefreshToken(file) => HasRefreshToken(file')]_vars

C3_Witness ==
    /\ Returned("get_access_token")
    /\ Probed401
    /\ result.kind = "ok"
    /\ "refresh_token" \notin DOMAIN lastBody
    /\ file # fileAtCall
    /\ HasRefreshToken(file)

\* C4: with no stored record, get_access_token runs the listener and then the
\* code exchange; when both succeed the exchanged token set is in the store
\* when the call returns, and the call returns its access_token.
C4_FirstRunPersists ==
    /\ (op = "get_access_token" /\ ~fileAtCall.exists /\ pc # "idle")
        => /\ pc \in {"auth_creds", "auth_bind", "auth_start", "auth_browser",
                      "auth_join", "auth_close", "auth_check", "auth_post"}
           /\ probes = <<>> /\ refreshCalls = <<>> /\ posts = <<>>
           /\ pc = "auth_post" => (nBind = 1 /\ nBrowser = 1
                                   /\ ~server_open[nAuth])
    /\ (Returned("get_access_token") /\ ~fileAtCall.exists
            /\ result.kind = "ok")
        => /\ nBind = 1
           /\ Len(posts) = 1
           /\ posts[1].grant = "authorization_code"
           /\ posts[1].status = 200
           /\ file.exists
           /\ Loads(file.text) = lastBody
           /\ result.token = Get(lastBody, "access_token")

C4_Witness ==
    /\ Returned("get_access_token")
    /\ ~fileAtCall.exists
    /\ result.kind = "ok"
    /\ file.exists
    /\ result.token = Get(Stored, "access_token")

\* C5: with the client id or the client secret absent or empty, authorize()
\* and refresh_access_token() fail with the missing-credentials error before
\* any network activity: no POST to the token endpoint, no listener bound, no
\* browser launched, the store unchanged.
C5_MissingCredentialsFailFast ==
    CredsAbsent
    => /\ posts = <<>>
       /\ nBind = 0
       /\ nBrowser = 0
       /\ nAuth = 0
       /\ file = fileAtCall
       /\ pc \notin {"auth_bind", "auth_start", "auth_browser", "auth_join",
                     "auth_close", "auth_check", "auth_post", "refresh_post"}
       /\ (pc = "idle" /\ op \in {"authorize", "refresh_access_token"})
            => result = Err(MissingCredentialsError)

C5_Witness ==
    /\ Returned("authorize")
    /\ env.id = "set"
    /\ env.secret \in {Unset, ""}
    /\ result = Err(MissingCredentialsError)
    /\ file = fileAtCall

\* C6: when the refresh exchange fails after a 401, get_access_token raises:
\* it does not return the stale access token, starts no authorization flow,
\* does not retry the refresh and leaves the store unchanged.
C6_RefreshFailureSurfaces ==
    (Returned("get_access_token") /\ Probed401
        /\ (posts = <<>> \/ posts[Len(posts)].status \notin 200..299))
    => /\ result.kind = "err"
       /\ nBind = 0
       /\ nBrowser = 0
       /\ Len(refreshCalls) = 1
       /\ Len(posts) <= 1
       /\ file = fileAtCall

C6_Witness ==
    /\ Returned("get_access_token")
    /\ Probed401
    /\ Len(posts) = 1
    /\ posts[1].status = 400
    /\ result = Err("HTTPStatusError")
    /\ file = fileAtCall

\* authorize() of the last call ended at line 83: the listener was bound and
\* closed, and no POST was made
EndedWithoutCode ==
    /\ pc = "idle"
    /\ nBind = 1
    /\ ~server_open[nAuth]
    /\ posts = <<>>

C8_ListenerClosedOnExit ==
    pc = "idle" => \A i \in Invocations : ~server_open[i]

\* C9: the listening socket is never closed while its accept thread is still
\* running handle_request.
C9_ThreadJoinedBeforeClose ==
    \A i \in Invocations :
        thread[i] \in {"waiting", "handling"} => server_open[i]

\* no accept thread has accepted a request so far
NoRequestYet ==
    \A i \in Invocations : thread[i] # "handling" /\ response[i] = 0

\* C10: if no request ever reaches the listener, the wait of authorize() ends
\* with the timeout and authorize() fails with the timed-out error.
C10_TimeoutEndsWait ==
    (pc = "auth_join" /\ NoRequestYet)
        ~> ((pc = "idle" /\ joinTimedOut
                /\ result = Err("Authorization timed out or failed."))
            \/ ~NoRequestYet)

C10_Witness ==
    /\ EndedWithoutCode
    /\ joinTimedOut
    /\ NoRequestYet
    /\ result = Err("Authorization timed out or failed.")

\* the main thread is inside authorize(), after the bind
InListenerPhase ==
    pc \in {"auth_start", "auth_browser", "auth_join", "auth_close",
            "auth_check", "auth_post"}

\* authorize() of the last call went through server_close(), and the accept
\* thread had ended when join returned: it has handled its request
JoinedInTime ==
    /\ pc = "idle"
    /\ nBind = 1
    /\ ~server_open[nAuth]
    /\ ~joinTimedOut

\* query["code"][0], None without a code
FirstCode(q) == IF "code" \in DOMAIN q THEN q["code"][1] ELSE None

\* C11: within one authorize() invocation at most one request is handled and
\* at most one code is accepted: the captured code is None until the first
\* request of the invocation is handled and is that request's code (or still
\* None) from then on, whatever arrives later.
C11_OnlyFirstRequestDecides ==
    InListenerPhase
    => auth_code = IF thread[nAuth] = "done" THEN FirstCode(request[nAuth])
                   ELSE None

\* C12: a request with code=C is answered with 200 and C, the first value of
\* code, is the code the token exchange sends.
C12_CodeIsExchanged ==
    (JoinedInTime /\ "code" \in DOMAIN request[nAuth])
    => /\ response[nAuth] = 200
       /\ Len(posts) = 1
       /\ posts[1].grant = "authorization_code"
       /\ posts[1].value = request[nAuth]["code"][1]

\* C13: a request with error=E and no code, or with neither, is answered
\* with 400, captures no code and makes authorize() end with an error.
C13_NoCodeIsAnError ==
    (JoinedInTime /\ "code" \notin DOMAIN request[nAuth])
    => /\ response[nAuth] = 400
       /\ posts = <<>>
       /\ result.kind = "err"
       /\ file = fileAtCall

\* C14: a non-2xx answer to the authorization-code exchange is surfaced as
\* an error and nothing is written: the store is as it was before the call.
C14_RejectedExchangeWritesNothing ==
    (pc = "idle" /\ posts # <<>>
        /\ posts[Len(posts)].grant = "authorization_code"
        /\ posts[Len(posts)].status \in {400, 500})
    => /\ result = Err("HTTPStatusError")
       /\ file = fileAtCall

C14_Witness ==
    /\ Returned("get_access_token")
    /\ Len(posts) = 1
    /\ posts[1].grant = "authorization_code"
    /\ posts[1].status = 400
    /\ result = Err("HTTPStatusError")
    /\ ~fileAtCall.exists
    /\ ~file.exists

\* C15: with a stored token set and a probe status other than 401,
\* get_access_token returns the stored access token as it is, whatever its
\* expires_in, makes no call to the token endpoint and leaves the store
\* unchanged.
C15_OtherStatusReturnsStored ==
    (Returned("get_access_token") /\ fileAtCall.exists
        /\ Len(probes) = 1 /\ probes[1].status \in {200, 403, 500})
    => /\ result = OkToken(Get(StoredAtCall, "access_token"))
       /\ posts = <<>>
       /\ refreshCalls = <<>>
       /\ nBind = 0
       /\ file = fileAtCall

C15_Witness ==
    /\ Returned("get_access_token")
    /\ fileAtCall.exists
    /\ Len(probes) = 1
    /\ probes[1].status = 403
    /\ Get(StoredAtCall, "expires_in") = 0
    /\ result = OkToken("a1")
    /\ posts = <<>>
    /\ file = fileAtCall

\* C20: at the moment get_access_token returns successfully, the returned
\* string is the access_token of the record in the store (fresh
\* authorization, cached token, refreshed token).
C20_ReturnedTokenIsStored ==
    [][(pc # "idle" /\ pc' = "idle" /\ op = "get_access_token"
            /\ result'.kind = "ok")
       => /\ file'.exists
          /\ Get(Loads(file'.text), "access_token") = result'.token]_vars

C20_Witness ==
    /\ Returned("get_access_token")
    /\ Len(probes) = 1
    /\ probes[1].status = 200
    /\ posts = <<>>
    /\ result.kind = "ok"
    /\ file.exists
    /\ result.token = Get(Stored, "access_token")

\* a _load_tokens returns
LoadReturns == rpc # "idle" /\ rpc' = "idle"

\* C16: _save_tokens(T) followed by _load_tokens() returns T, whatever the
\* store held before the save.
C16_SaveThenLoadRoundTrip ==
    [][(LoadReturns /\ ~overlap' /\ wtokens # NoTokens)
       => loaded' = wtokens]_vars

C16_Witness ==
    /\ rpc = "idle"
    /\ wpc = "idle"
    /\ ~overlap
    /\ wtokens \in WithoutRefresh
    /\ loaded = wtokens
    /\ prev.exists
    /\ prev.text # <<>>
    /\ prev # file

\* C17: when no record exists _load_tokens returns None, raises nothing and
\* does not create the record.
C17_LoadOfAbsentStoreIsNone ==
    [][(LoadReturns /\ ~overlap' /\ ~file.exists)
       => (loaded' = NoTokens /\ ~file'.exists)]_vars

C17_Witness ==
    /\ rpc = "idle"
    /\ wpc = "idle"
    /\ wtokens = NoTokens
    /\ loaded = NoTokens
    /\ ~file.exists

\* C18: a _load_tokens that runs while a _save_tokens is running returns
\* either the complete previous record or the complete new record.
C18_SaveIsAtomicForReaders ==
    [][LoadReturns
       => loaded' \in IF wpc = "idle"
                      THEN {load_tokens(file)}
                      ELSE {load_tokens(prev), wtokens}]_vars

\* C19: every get_access_token call reads the store again: it probes with
\* the access token stored when the call started and, unless it refreshes,
\* returns that token, also when another process replaced the record after
\* the previous call.
C19_EveryCallRereadsStore ==
    (Returned("get_access_token") /\ fileAtCall.exists /\ probes # <<>>)
    => /\ probes[1].token = Get(Loads(fileAtCall.text), "access_token")
       /\ (posts = <<>> /\ result.kind = "ok")
          => result.token = Get(Loads(fileAtCall.text), "access_token")

C19_Witness ==
    /\ Returned("get_access_token")
    /\ fileAtCall = save_tokens(ReplacedRecord)
    /\ Len(probes) = 1
    /\ probes[1].token = "a3"
    /\ posts = <<>>
    /\ result = OkToken("a3")

\* C21: the code sent to the token endpoint is always one received by the
\* listener of the current authorize() invocation, also when an earlier
\* invocation timed out and its accept thread is still alive.
C21_CodeOfCurrentInvocation ==
    \A k \in 1..Len(posts) :
        posts[k].grant = "authorization_code"
        => /\ thread[nAuth] = "done"
           /\ "code" \in DOMAIN request[nAuth]
           /\ posts[k].value = request[nAuth]["code"][1]

\* line 82 is passed: authorize() goes on to the exchange or raises
LeavesCheck == pc = "auth_check" /\ pc' # "auth_check"

\* C22: when authorize() ends without a captured code, no POST to the token
\* endpoint is made in the call and the credential store is as it was when
\* the call started.
C22_NoCodeNoExchangeNoWrite ==
    [][(LeavesCheck /\ auth_code = None)
       => /\ pc' = "idle"
          /\ result'.kind = "err"
          /\ posts' = <<>>
          /\ file' = fileAtCall']_vars

C22_Witness ==
    /\ pc = "idle"
    /\ nBind = 1
    /\ ~server_open[nAuth]
    /\ ~joinTimedOut
    /\ thread[nAuth] = "done"
    /\ response[nAuth] = 400
    /\ auth_code = None
    /\ result.kind = "err"
    /\ posts = <<>>
    /\ file = fileAtCall

====
